---- MODULE Spec2Model ----
(***************************************************************************)
(* Night Sky Perceptions (src/Main.py): the spawner, the SkyObject         *)
(* kinematics and projection, and the controller's frame loop.             *)
(*                                                                         *)
(* Numbers.  The program computes in floating point; the model computes    *)
(* the same expressions exactly, in fixed point:                           *)
(*   - the speed multiplier in units of 1/SMUnit, SMUnit = 2*SLIDER_W, so  *)
(*     that 0.5 + ((mx - SLIDER_X)/SLIDER_W) * 2.5 is an integer for       *)
(*     every integer pixel mx;                                             *)
(*   - cos and sin of the spawn heading in units of 1/TrigUnit;            *)
(*   - positions in units of 1/PosUnit pixel, PosUnit = SMUnit*TrigUnit,   *)
(*     so that x + vx * SPEED_MULTIPLIER is exact;                         *)
(*   - the depth z in units of 1/ZUnit.                                    *)
(***************************************************************************)
EXTENDS Integers, Sequences, FiniteSets, TLC

VARIABLES
    max_objects,        \* value of the Config global MAX_OBJECTS in this run
    max_per_type,       \* value of the Config global MAX_PER_TYPE in this run
    pc,                 \* position of the program
    objs,               \* spawn_objects' list `objs`, then main's `objects`
    oid,                \* spawn_objects' next id
    counts,             \* spawn_objects' per-type counts
    choice,             \* spawn_objects' last drawn type ("none" before a draw)
    VIEW_MODE,
    DIRECTION,
    SPEED_MULTIPLIER,   \* in units of 1/SMUnit
    dragging_slider,
    running,
    pending,            \* events of this frame's pygame.event.get() not yet handled
    event,              \* the event the for loop handled last
    idx,                \* position of `for obj in objects`
    frame,              \* iterations of `while running` started
    nupdates,           \* update calls made
    canvas              \* the draw calls of the last draw step

vars == <<max_objects, max_per_type, pc, objs, oid, counts, choice,
          VIEW_MODE, DIRECTION, SPEED_MULTIPLIER, dragging_slider, running,
          pending, event, idx, frame, nupdates, canvas>>

spawnVars == <<objs, oid, counts, choice>>
ctlVars   == <<VIEW_MODE, DIRECTION, SPEED_MULTIPLIER, dragging_slider, running>>
cfgVars   == <<max_objects, max_per_type>>

----------------------------------------------------------------------------
(* Program constants *)

WIDTH == 1000
HEIGHT == 700
MAX_OBJECTS == 7
MAX_PER_TYPE == 4
BUTTON_HEIGHT == 50
SLIDER_Y == HEIGHT - 80
SLIDER_X == 200
SLIDER_W == 600
SLIDER_H == 20
TRAIL_CAP == 10
Z_MAX == 100

TypeNames == <<"Plane", "Helicopter", "Satellite", "Meteor", "Rare">>

OBJECT_TYPES ==
    [t \in {TypeNames[i] : i \in 1..Len(TypeNames)} |->
        CASE t = "Plane"      -> [color |-> <<255, 0, 0>>,     prob |-> 30]
          [] t = "Helicopter" -> [color |-> <<0, 0, 255>>,     prob |-> 20]
          [] t = "Satellite"  -> [color |-> <<255, 255, 255>>, prob |-> 20]
          [] t = "Meteor"     -> [color |-> <<255, 255, 150>>, prob |-> 20]
          [] t = "Rare"       -> [color |-> <<150, 0, 150>>,   prob |-> 10]]

MOVEMENT_TYPES == <<"normal", "hover_zip", "rare", "orbit", "shooting_star">>
MOVEMENT_DIST == <<35, 25, 10, 15, 15>>

----------------------------------------------------------------------------
(* Fixed-point units *)

SMUnit == 2 * SLIDER_W
TrigUnit == 5
PosUnit == SMUnit * TrigUnit
ZUnit == 10

Max(a, b) == IF a >= b THEN a ELSE b
Min(a, b) == IF a <= b THEN a ELSE b

\* Python's int() on a float: truncation toward zero, of n/d with d > 0.
IntTrunc(n, d) == IF n >= 0 THEN n \div d ELSE -((-n) \div d)

\* Mutant of WeightedChoices: the draw always yields the first element.
WeightedChoices_First(population, weights) == {population[1]}

\* random.choices(population, weights)[0]: any element of positive weight.
WeightedChoices(population, weights) ==
    {population[i] : i \in {j \in 1..Len(population) : weights[j] > 0}}

----------------------------------------------------------------------------
(* SkyObject *)

\* math.cos(angle), math.sin(angle): a heading is kept as the pair
\* <<cos, sin>> in units of 1/TrigUnit.
Cos(angle) == angle[1]
Sin(angle) == angle[2]

\* SkyObject.__init__(oid, otype); d holds the constructor's random draws:
\* x, y (1/PosUnit pixel), z (1/ZUnit), speed, movement, angle.
SkyObject(id, otype, d) ==
    [id         |-> id,
     otype      |-> otype,
     base_color |-> OBJECT_TYPES[otype].color,
     x          |-> d.x,
     y          |-> d.y,
     z          |-> d.z,
     trail      |-> <<>>,
     speed      |-> d.speed,
     movement   |-> d.movement,
     vx         |-> Cos(d.angle) * d.speed,
     vy         |-> Sin(d.angle) * d.speed]

\* Mutant of ClampZ: the upper clamp is lost.
ClampZ_NoUpper(z) == Max(0, z)

\* max(0, min(100, z + dz)), dz the draw of random.uniform(-0.2, 0.2).
ClampZ(z) == Max(0, Min(Z_MAX * ZUnit, z))

\* Mutant of TrailPush: the newest entry is evicted instead of the oldest.
TrailPush_PopNewest(trail, p) ==
    LET t == Append(trail, p)
    IN  IF Len(t) > TRAIL_CAP THEN SubSeq(t, 1, TRAIL_CAP) ELSE t

\* trail.append(p); if len(trail) > 10: trail.pop(0)
TrailPush(trail, p) ==
    LET t == Append(trail, p)
    IN  IF Len(t) > TRAIL_CAP THEN Tail(t) ELSE t

\* Mutant of Wrap: only the upper bound is tested.
Wrap_UpperOnly(v, bound) == IF v > bound * PosUnit THEN 0 ELSE v

\* Mutant of Wrap: a true modulo wraparound that keeps the overshoot.
Wrap_Modulo(v, bound) == v % (bound * PosUnit)

\* if v < 0: v = bound ; if v > bound: v = 0   (bound in pixels)
Wrap(v, bound) ==
    LET a == IF v < 0 THEN bound * PosUnit ELSE v
    IN  IF a > bound * PosUnit THEN 0 ELSE a

\* The position the velocity step computes (lines 47-48).
Advance(p, v, sm) == p + v * sm

\* Mutant of Update: an object that leaves the canvas sideways turns round.
Update_Bounce(o, sm, dz) ==
    LET x1 == Advance(o.x, o.vx, sm)
        y1 == Advance(o.y, o.vy, sm)
    IN  [o EXCEPT !.x     = Wrap(x1, WIDTH),
                  !.y     = Wrap(y1, HEIGHT),
                  !.z     = ClampZ(o.z + dz),
                  !.trail = TrailPush(o.trail, <<x1, y1>>),
                  !.vx    = IF Wrap(x1, WIDTH) # x1 THEN -o.vx ELSE o.vx]

\* SkyObject.update(), with sm the global SPEED_MULTIPLIER and dz the draw
\* of random.uniform(-0.2, 0.2) in units of 1/ZUnit.
Update(o, sm, dz) ==
    LET x1 == Advance(o.x, o.vx, sm)
        y1 == Advance(o.y, o.vy, sm)
    IN  [o EXCEPT !.x     = Wrap(x1, WIDTH),
                  !.y     = Wrap(y1, HEIGHT),
                  !.z     = ClampZ(o.z + dz),
                  !.trail = TrailPush(o.trail, <<x1, y1>>)]

\* Mutant of Channel: the factor grows with depth (factor = z/100).
Channel_Inverted(c, z) ==
    Min(255, IntTrunc(c * (Z_MAX * ZUnit) + 80 * z, Z_MAX * ZUnit))

\* min(255, int(c + factor * 80)) with factor = 1 - z/100.
Channel(c, z) ==
    Min(255, IntTrunc((c + 80) * (Z_MAX * ZUnit) - 80 * z, Z_MAX * ZUnit))

DisplayColor(o) == [i \in 1..3 |-> Channel(o.base_color[i], o.z)]

\* Mutant of GroundX: the WEST view mirrors about the canvas height.
GroundX_Height(o, direction) ==
    IF direction = "EAST" THEN o.x ELSE HEIGHT * PosUnit - o.x

\* gx = self.x if DIRECTION == "EAST" else WIDTH - self.x     (1/PosUnit pixel)
GroundX(o, direction) ==
    IF direction = "EAST" THEN o.x ELSE WIDTH * PosUnit - o.x

\* gy = HEIGHT - (self.z * 5)                                 (1/ZUnit pixel)
GroundY(o) == HEIGHT * ZUnit - o.z * 5

\* pygame.draw.lines raises ValueError for fewer than two points.
DrawRaises(o, view) == view = "PLAN" /\ Len(o.trail) < 2

\* SkyObject.draw(surface): the draw calls issued.  circle is in whole
\* pixels; label is <<x + 8, y - 8>> with x in 1/PosUnit pixel and y in
\* 1/PosUnit pixel (PLAN) or 1/ZUnit pixel (GROUND).
Draw(o, view, direction) ==
    IF view = "PLAN"
    THEN [mode   |-> "PLAN",
          color  |-> DisplayColor(o),
          circle |-> <<IntTrunc(o.x, PosUnit), IntTrunc(o.y, PosUnit)>>,
          lines  |-> o.trail,
          text   |-> o.id,
          label  |-> <<o.x + 8 * PosUnit, o.y - 8 * PosUnit>>]
    ELSE [mode   |-> "GROUND",
          color  |-> DisplayColor(o),
          circle |-> <<IntTrunc(GroundX(o, direction), PosUnit),
                       IntTrunc(GroundY(o), ZUnit)>>,
          lines  |-> <<>>,
          text   |-> o.id,
          label  |-> <<GroundX(o, direction) + 8 * PosUnit,
                       GroundY(o) - 8 * ZUnit>>]

NoDraw == [mode |-> "NONE", color |-> <<0, 0, 0>>, circle |-> <<0, 0>>,
           lines |-> <<>>, text |-> 0, label |-> <<0, 0>>]

NoEvent == [type |-> "NONE", pos |-> <<0, 0>>]

----------------------------------------------------------------------------
(* Sampled inputs *)

\* Values of (MAX_OBJECTS, MAX_PER_TYPE) the spawner is run with: the
\* shipped configuration and one that five types cannot satisfy.
SpawnConfigs == {<<MAX_OBJECTS, MAX_PER_TYPE>>, <<MAX_OBJECTS, 1>>}

Px(n) == n * PosUnit

East  == <<TrigUnit, 0>>
South == <<0, TrigUnit>>
West  == <<-TrigUnit, 0>>
North == <<0, -TrigUnit>>
NorthEast == <<3, -4>>

\* Draws of the constructor used by the spawn loop's own specification.
SpawnDraws ==
    {[x |-> Px(500), y |-> Px(175), z |-> 50 * ZUnit, speed |-> 2,
      movement |-> "normal", angle |-> East]}

\* Draws of the constructor: objects about to leave the canvas on each side.
DrawEast ==
    [x |-> Px(998), y |-> Px(100), z |-> 1, speed |-> 3,
     movement |-> "normal", angle |-> East]
DrawWest ==
    [x |-> Px(2), y |-> Px(100), z |-> Z_MAX * ZUnit - 1, speed |-> 3,
     movement |-> "hover_zip", angle |-> West]
DrawNorth ==
    [x |-> Px(500), y |-> Px(3), z |-> 0, speed |-> 1,
     movement |-> "orbit", angle |-> North]
DrawSouth ==
    [x |-> Px(500), y |-> Px(349), z |-> Z_MAX * ZUnit, speed |-> 3,
     movement |-> "shooting_star", angle |-> South]
DrawNorthEast ==
    [x |-> Px(999), y |-> Px(1), z |-> 50 * ZUnit, speed |-> 3,
     movement |-> "rare", angle |-> NorthEast]

\* Draws of random.uniform(-0.2, 0.2), in units of 1/ZUnit.
ZDeltaSamples == {-2, 0, 2}

----------------------------------------------------------------------------
(* spawn_objects *)

InitControl ==
    /\ VIEW_MODE = "PLAN"
    /\ DIRECTION = "EAST"
    /\ SPEED_MULTIPLIER = SMUnit
    /\ dragging_slider = FALSE
    /\ running = TRUE
    /\ pending = 0
    /\ event = NoEvent
    /\ idx = 0
    /\ frame = 0
    /\ nupdates = 0
    /\ canvas = NoDraw

\* random.choices(MOVEMENT_TYPES, MOVEMENT_DIST)[0]
MovementDraws == WeightedChoices(MOVEMENT_TYPES, MOVEMENT_DIST)

\* An object as the constructor leaves it: x in [0, WIDTH], y in
\* [0, HEIGHT/2], z in [0, 100], speed in [1, 3], a unit heading, an empty
\* trail.
FreshObject(o) ==
    /\ 0 <= o.x /\ o.x <= Px(WIDTH)
    /\ 0 <= o.y /\ 2 * o.y <= Px(HEIGHT)
    /\ 0 <= o.z /\ o.z <= Z_MAX * ZUnit
    /\ 1 <= o.speed /\ o.speed <= 3
    /\ o.vx * o.vx + o.vy * o.vy = (TrigUnit * o.speed) * (TrigUnit * o.speed)
    /\ o.movement \in MovementDraws
    /\ o.base_color = OBJECT_TYPES[o.otype].color
    /\ o.trail = <<>>

\* main() has called spawn_objects(): objs, oid = [], 1; counts all 0.
InitSpawn ==
    /\ \E cfg \in SpawnConfigs : max_objects = cfg[1] /\ max_per_type = cfg[2]
    /\ pc = "spawn"
    /\ objs = <<>>
    /\ oid = 1
    /\ counts = [t \in DOMAIN OBJECT_TYPES |-> 0]
    /\ choice = "none"
    /\ InitControl

TypeDraws ==
    WeightedChoices(TypeNames, [i \in 1..Len(TypeNames) |-> OBJECT_TYPES[TypeNames[i]].prob])

\* while len(objs) < MAX_OBJECTS
SpawnLooping == pc = "spawn" /\ Len(objs) < max_objects

\* Mutant of UnderCap: the comparison is off by one.
UnderCap_Inclusive(c) == counts[c] <= max_per_type

\* if counts[choice] < MAX_PER_TYPE
UnderCap(c) == counts[c] < max_per_type

\* One iteration whose draw is accepted.
SpawnAccept(D) ==
    /\ SpawnLooping
    /\ \E c \in TypeDraws, d \in D :
          /\ UnderCap(c)
          /\ FreshObject(SkyObject(oid, c, d))
          /\ choice' = c
          /\ objs' = Append(objs, SkyObject(oid, c, d))
          /\ counts' = [counts EXCEPT ![c] = @ + 1]
          /\ oid' = oid + 1
    /\ UNCHANGED <<cfgVars, pc, ctlVars, pending, event, idx, frame, nupdates, canvas>>

\* One iteration whose draw is a type already at its cap.
SpawnReject ==
    /\ SpawnLooping
    /\ \E c \in TypeDraws :
          /\ ~UnderCap(c)
          /\ choice' = c
    /\ UNCHANGED <<cfgVars, pc, objs, oid, counts, ctlVars, pending, event, idx,
                   frame, nupdates, canvas>>

\* return objs; main continues at `while running`.
SpawnReturn ==
    /\ pc = "spawn"
    /\ ~(Len(objs) < max_objects)
    /\ pc' = "while"
    /\ UNCHANGED <<cfgVars, spawnVars, ctlVars, pending, event, idx, frame,
                   nupdates, canvas>>

NextSpawn == SpawnAccept(SpawnDraws) \/ SpawnReject \/ SpawnReturn

SpecSpawn == InitSpawn /\ [][NextSpawn]_vars

\* The draws make progress: an iteration that can accept is eventually one
\* that does (every type below its cap is eventually drawn).
SpecSpawnFair ==
    /\ SpecSpawn
    /\ WF_vars(SpawnAccept(SpawnDraws))
    /\ WF_vars(SpawnReturn)

----------------------------------------------------------------------------
(* main: UI geometry and the frame loop *)

MaxFrames == 2       \* iterations of `while running` explored
MaxEvents == 2       \* events one pygame.event.get() returns, at most

Rect(x, y, w, h) == [x |-> x, y |-> y, w |-> w, h |-> h]

view_btn == Rect(20, HEIGHT - BUTTON_HEIGHT - 20, 150, BUTTON_HEIGHT)
dir_btn  == Rect(20, HEIGHT - 2 * BUTTON_HEIGHT - 40, 150, BUTTON_HEIGHT)

\* pygame.Rect.collidepoint: left and top edges inside, right and bottom not.
CollidePoint(r, mx, my) ==
    /\ r.x <= mx /\ mx < r.x + r.w
    /\ r.y <= my /\ my < r.y + r.h

\* SLIDER_X <= mx <= SLIDER_X + SLIDER_W and SLIDER_Y - 10 <= my <= SLIDER_Y + SLIDER_H + 10
InSliderBand(mx, my) ==
    /\ SLIDER_X <= mx /\ mx <= SLIDER_X + SLIDER_W
    /\ SLIDER_Y - 10 <= my /\ my <= SLIDER_Y + SLIDER_H + 10

\* Mutant of Ratio: the track's left edge is not subtracted.
Ratio_NoOffset(mx) == mx

\* ratio = (mx - SLIDER_X) / SLIDER_W, in units of 1/SLIDER_W
Ratio(mx) == mx - SLIDER_X

\* Mutant of ClampRatio: the ratio is not clamped.
ClampRatio_None(r) == r

\* ratio = max(0, min(1, ratio))
ClampRatio(r) == Max(0, Min(SLIDER_W, r))

\* 0.5 + ratio * 2.5, in units of 1/SMUnit
SliderValue(mx) ==
    (SMUnit \div 2) + (ClampRatio(Ratio(mx)) * 5 * SMUnit) \div (2 * SLIDER_W)

\* Mutant of ToggleView: the click always selects GROUND.
ToggleView_Stuck(v) == "GROUND"

\* VIEW_MODE = "GROUND" if VIEW_MODE == "PLAN" else "PLAN"
ToggleView(v) == IF v = "PLAN" THEN "GROUND" ELSE "PLAN"

\* DIRECTION = "WEST" if DIRECTION == "EAST" else "EAST"
ToggleDirection(d) == IF d = "EAST" THEN "WEST" ELSE "EAST"

Ev(type, mx, my) == [type |-> type, pos |-> <<mx, my>>]

\* Pointer positions of MOUSEBUTTONDOWN: in the view button (its top-left
\* corner), in the direction button, in the slider band (two opposite
\* corners), just right of the view button, and on the open canvas.
DownSamples ==
    {Ev("MOUSEBUTTONDOWN", 20, 630), Ev("MOUSEBUTTONDOWN", 100, 580),
     Ev("MOUSEBUTTONDOWN", 200, 610), Ev("MOUSEBUTTONDOWN", 800, 650),
     Ev("MOUSEBUTTONDOWN", 170, 630), Ev("MOUSEBUTTONDOWN", 500, 300)}

\* Pointer positions of MOUSEMOTION: left of the track, its two ends, its
\* middle and right of it, on and off the slider's band.
MotionSamples ==
    {Ev("MOUSEMOTION", 100, 300), Ev("MOUSEMOTION", 200, 0),
     Ev("MOUSEMOTION", 500, 630), Ev("MOUSEMOTION", 800, 630),
     Ev("MOUSEMOTION", 900, 0)}

QuitEvent == Ev("QUIT", 0, 0)
UpEvent == Ev("MOUSEBUTTONUP", 500, 630)

\* The for loop is at an event: `for event in pygame.event.get()`.
AtEvent == pc = "events" /\ pending > 0

loopVars == <<idx, frame, nupdates, canvas>>

\* Mutant of PollEvents: the loop does not test `running`.
PollEvents_NoTest ==
    /\ pc = "while"
    /\ frame < MaxFrames
    /\ frame' = frame + 1
    /\ pending' \in 0..MaxEvents
    /\ canvas' = NoDraw
    /\ pc' = "events"
    /\ UNCHANGED <<cfgVars, spawnVars, ctlVars, event, idx, nupdates>>

\* while running: screen.fill(...); pygame.event.get()
PollEvents ==
    /\ pc = "while"
    /\ running
    /\ frame < MaxFrames
    /\ frame' = frame + 1
    /\ pending' \in 0..MaxEvents
    /\ canvas' = NoDraw
    /\ pc' = "events"
    /\ UNCHANGED <<cfgVars, spawnVars, ctlVars, event, idx, nupdates>>

\* while running: with running False the loop is left and main returns.
ExitLoop ==
    /\ pc = "while"
    /\ ~running
    /\ pc' = "exited"
    /\ UNCHANGED <<cfgVars, spawnVars, ctlVars, pending, event, loopVars>>

\* Mutant of OnQuit: the quit event is consumed without clearing `running`.
OnQuit_Ignored ==
    /\ AtEvent
    /\ event' = QuitEvent
    /\ pending' = pending - 1
    /\ UNCHANGED <<cfgVars, spawnVars, pc, ctlVars, loopVars>>

\* if event.type == pygame.QUIT: running = False
OnQuit ==
    /\ AtEvent
    /\ event' = QuitEvent
    /\ pending' = pending - 1
    /\ running' = FALSE
    /\ UNCHANGED <<cfgVars, spawnVars, pc, VIEW_MODE, DIRECTION, SPEED_MULTIPLIER,
                   dragging_slider, loopVars>>

\* elif event.type == pygame.MOUSEBUTTONDOWN
OnMouseDown ==
    /\ AtEvent
    /\ \E e \in DownSamples :
          LET mx == e.pos[1]
              my == e.pos[2]
          IN  /\ event' = e
              /\ IF CollidePoint(view_btn, mx, my)
                 THEN /\ VIEW_MODE' = ToggleView(VIEW_MODE)
                      /\ UNCHANGED <<DIRECTION, dragging_slider>>
                 ELSE IF CollidePoint(dir_btn, mx, my)
                 THEN /\ DIRECTION' = ToggleDirection(DIRECTION)
                      /\ UNCHANGED <<VIEW_MODE, dragging_slider>>
                 ELSE IF InSliderBand(mx, my)
                 THEN /\ dragging_slider' = TRUE
                      /\ UNCHANGED <<VIEW_MODE, DIRECTION>>
                 ELSE UNCHANGED <<VIEW_MODE, DIRECTION, dragging_slider>>
    /\ pending' = pending - 1
    /\ UNCHANGED <<cfgVars, spawnVars, pc, SPEED_MULTIPLIER, running, loopVars>>

\* Mutant of OnMouseUp: releasing the pointer does not end the drag.
OnMouseUp_Keeps ==
    /\ AtEvent
    /\ event' = UpEvent
    /\ pending' = pending - 1
    /\ UNCHANGED <<cfgVars, spawnVars, pc, ctlVars, loopVars>>

\* elif event.type == pygame.MOUSEBUTTONUP: dragging_slider = False
OnMouseUp ==
    /\ AtEvent
    /\ event' = UpEvent
    /\ pending' = pending - 1
    /\ dragging_slider' = FALSE
    /\ UNCHANGED <<cfgVars, spawnVars, pc, VIEW_MODE, DIRECTION, SPEED_MULTIPLIER,
                   running, loopVars>>

\* Mutant of OnMouseMotion: the handler does not test dragging_slider.
OnMouseMotion_NoGuard ==
    /\ AtEvent
    /\ \E e \in MotionSamples :
          /\ event' = e
          /\ SPEED_MULTIPLIER' = SliderValue(e.pos[1])
    /\ pending' = pending - 1
    /\ UNCHANGED <<cfgVars, spawnVars, pc, VIEW_MODE, DIRECTION, dragging_slider,
                   running, loopVars>>

\* elif event.type == pygame.MOUSEMOTION and dragging_slider
OnMouseMotion ==
    /\ AtEvent
    /\ \E e \in MotionSamples :
          /\ event' = e
          /\ SPEED_MULTIPLIER' =
                IF dragging_slider THEN SliderValue(e.pos[1]) ELSE SPEED_MULTIPLIER
    /\ pending' = pending - 1
    /\ UNCHANGED <<cfgVars, spawnVars, pc, VIEW_MODE, DIRECTION, dragging_slider,
                   running, loopVars>>

\* Mutant of EndEvents: the object loop starts with events still unhandled.
EndEvents_Early ==
    /\ pc = "events"
    /\ event' = NoEvent
    /\ idx' = 1
    /\ pc' = IF Len(objs) >= 1 THEN "update" ELSE "ui"
    /\ UNCHANGED <<cfgVars, spawnVars, ctlVars, pending, frame, nupdates, canvas>>

\* The event list is exhausted: `for obj in objects` starts.  The loop
\* variable `event` is not read again before the next frame's events.
EndEvents ==
    /\ pc = "events"
    /\ pending = 0
    /\ event' = NoEvent
    /\ idx' = 1
    /\ pc' = IF Len(objs) >= 1 THEN "update" ELSE "ui"
    /\ UNCHANGED <<cfgVars, spawnVars, ctlVars, pending, frame, nupdates, canvas>>

\* obj.update()
UpdateObj ==
    /\ pc = "update"
    /\ \E dz \in ZDeltaSamples :
          objs' = [objs EXCEPT ![idx] = Update(@, SPEED_MULTIPLIER, dz)]
    /\ nupdates' = nupdates + 1
    /\ pc' = "draw"
    /\ UNCHANGED <<cfgVars, oid, counts, choice, ctlVars, pending, event, idx,
                   frame, canvas>>

\* Mutant of DrawObj: draw stores the truncated pixel position in the object.
DrawObj_Truncates ==
    /\ pc = "draw"
    /\ ~DrawRaises(objs[idx], VIEW_MODE)
    /\ canvas' = Draw(objs[idx], VIEW_MODE, DIRECTION)
    /\ objs' = [objs EXCEPT ![idx].x = IntTrunc(@, PosUnit) * PosUnit,
                            ![idx].y = IntTrunc(@, PosUnit) * PosUnit]
    /\ idx' = idx + 1
    /\ pc' = IF idx < Len(objs) THEN "update" ELSE "ui"
    /\ UNCHANGED <<cfgVars, oid, counts, choice, ctlVars, pending, event, frame,
                   nupdates>>

\* obj.draw(screen), and the for loop's step to the next object
DrawObj ==
    /\ pc = "draw"
    /\ ~DrawRaises(objs[idx], VIEW_MODE)
    /\ canvas' = Draw(objs[idx], VIEW_MODE, DIRECTION)
    /\ idx' = idx + 1
    /\ pc' = IF idx < Len(objs) THEN "update" ELSE "ui"
    /\ UNCHANGED <<cfgVars, spawnVars, ctlVars, pending, event, frame, nupdates>>

\* obj.draw(screen) when pygame.draw.lines raises: the exception leaves main.
DrawFails ==
    /\ pc = "draw"
    /\ DrawRaises(objs[idx], VIEW_MODE)
    /\ pc' = "crashed"
    /\ UNCHANGED <<cfgVars, spawnVars, ctlVars, pending, event, loopVars>>

\* draw_button, draw_button, draw_slider, display.flip, clock.tick: no
\* program state changes; control returns to `while running`.
DrawUI ==
    /\ pc = "ui"
    /\ pc' = "while"
    /\ UNCHANGED <<cfgVars, spawnVars, ctlVars, pending, event, loopVars>>

\* spawn_objects' result for the given types and constructor draws.
Population(types, draws) ==
    [i \in 1..Len(types) |-> SkyObject(i, types[i], draws[i])]

\* The population of the frame loop's runs: two objects, each about to
\* leave the canvas.
RunPopulations ==
    {Population(<<"Plane", "Satellite">>, <<DrawEast, DrawNorthEast>>)}

\* State after lines 114-119 of main: objects spawned, running = True.
Spawned(population) ==
    /\ \A i \in 1..Len(population) : FreshObject(population[i])
    /\ max_objects = Len(population)
    /\ max_per_type = MAX_PER_TYPE
    /\ objs = population
    /\ oid = Len(population) + 1
    /\ counts = [t \in DOMAIN OBJECT_TYPES |->
                    Cardinality({i \in 1..Len(population) : population[i].otype = t})]
    /\ choice = population[Len(population)].otype

InitRun ==
    /\ \E population \in RunPopulations : Spawned(population)
    /\ pc = "while"
    /\ InitControl

NextRun ==
    \/ PollEvents \/ ExitLoop
    \/ OnQuit \/ OnMouseDown \/ OnMouseUp \/ OnMouseMotion \/ EndEvents
    \/ UpdateObj \/ DrawObj \/ DrawFails \/ DrawUI

SpecRun == InitRun /\ [][NextRun]_vars

\* The loop is sequential code: every enabled step is eventually taken.
SpecRunFair == SpecRun /\ WF_vars(NextRun)

----------------------------------------------------------------------------
(* One SkyObject under repeated update() calls *)

MaxUpdates == 40     \* update calls explored on one object

\* Values of SPEED_MULTIPLIER the controller produces: the initial 1.0 and
\* the slider's values at the sampled pointer positions.
SpeedSamples == {SMUnit} \cup {SliderValue(e.pos[1]) : e \in MotionSamples}

UpdatePopulations ==
    {Population(<<"Plane">>, <<DrawEast>>),
     Population(<<"Helicopter">>, <<DrawWest>>),
     Population(<<"Satellite">>, <<DrawNorth>>),
     Population(<<"Meteor">>, <<DrawSouth>>),
     Population(<<"Rare">>, <<DrawNorthEast>>)}

InitUpdate ==
    /\ \E population \in UpdatePopulations : Spawned(population)
    /\ pc = "object"
    /\ VIEW_MODE = "PLAN"
    /\ DIRECTION = "EAST"
    /\ SPEED_MULTIPLIER \in SpeedSamples
    /\ dragging_slider = FALSE
    /\ running = TRUE
    /\ pending = 0
    /\ event = NoEvent
    /\ idx = 1
    /\ frame = 0
    /\ nupdates = 0
    /\ canvas = NoDraw

\* obj.update() on the object, once more
CallUpdate ==
    /\ pc = "object"
    /\ nupdates < MaxUpdates
    /\ \E dz \in ZDeltaSamples :
          objs' = [objs EXCEPT ![idx] = Update(@, SPEED_MULTIPLIER, dz)]
    /\ nupdates' = nupdates + 1
    /\ UNCHANGED <<cfgVars, pc, oid, counts, choice, ctlVars, pending, event, idx,
                   frame, canvas>>

NextUpdate == CallUpdate

SpecUpdate == InitUpdate /\ [][NextUpdate]_vars

----------------------------------------------------------------------------
(* Claims *)

Objects == {objs[i] : i \in 1..Len(objs)}

\* C1: for every SkyObject, after spawn and any number of update calls at
\* any speed multiplier the controller produces, 0 <= z <= 100 and the
\* trail holds at most 10 entries.
C1_DepthAndTrailBounded ==
    \A o \in Objects :
        /\ 0 <= o.z /\ o.z <= 100 * ZUnit
        /\ Len(o.trail) <= 10

\* More than 10 updates were made, the trail is full, and the depth of the
\* object spawned at z = 0.1 has been clamped to 0.
C1_Witness ==
    \E o \in Objects :
        /\ nupdates > 10
        /\ Len(o.trail) = 10
        /\ o.otype = "Plane"
        /\ o.z = 0

RefConfig == max_objects = MAX_OBJECTS /\ max_per_type = MAX_PER_TYPE

TypeCount(t) == Cardinality({i \in 1..Len(objs) : objs[i].otype = t})

\* C2: when spawn_objects returns for total_count = 7 and per_type_cap = 4,
\* the list has exactly 7 objects, no type occurs more than 4 times, and
\* the ids are 1..7 in list order; a rejected draw consumes no id (the next
\* id is always one more than the number of objects spawned).
C2_SpawnResult ==
    RefConfig =>
        /\ oid = Len(objs) + 1
        /\ pc = "while" =>
              /\ Len(objs) = 7
              /\ \A t \in DOMAIN OBJECT_TYPES : TypeCount(t) <= 4
              /\ \A i \in 1..Len(objs) : objs[i].id = i

\* spawn_objects has returned and one type has reached its cap.
C2_Witness ==
    /\ RefConfig
    /\ pc = "while"
    /\ \E t \in DOMAIN OBJECT_TYPES : TypeCount(t) = 4

\* C3: for total_count = 7, per_type_cap = 4 and 5 types the spawn loop
\* terminates: from every reachable state of the loop, the state in which
\* 7 objects are spawned and the function has returned is eventually
\* reached (given that the draws are fair to the types below their cap).
C3_SpawnTerminates ==
    (RefConfig /\ pc = "spawn") ~> (Len(objs) = 7 /\ pc = "while")

\* The loop has one object to go and its last draw was rejected.
C3_Witness ==
    /\ RefConfig
    /\ pc = "spawn"
    /\ Len(objs) = 6
    /\ choice # objs[6].otype

\* C4: an unsatisfiable request (per_type_cap * number_of_types <
\* total_count) is signalled as a configuration error instead of looping
\* forever: the loop is never running with every type at its cap.
C4_NoHang ==
    ~ ( /\ pc = "spawn"
        /\ Len(objs) < max_objects
        /\ \A t \in DOMAIN OBJECT_TYPES : counts[t] >= max_per_type )

\* The position after the boundary snap of one axis, as the claim states it.
SnapOK(advanced, post, bound) ==
    /\ advanced > Px(bound) => post = 0
    /\ advanced < 0 => post = Px(bound)
    /\ (0 <= advanced /\ advanced <= Px(bound)) => post = advanced

\* C5: boundary snap in update, independently per axis: x advanced past
\* width becomes exactly 0, x advanced below 0 becomes exactly width,
\* likewise y against height, and a coordinate inside [0, bound] is left as
\* advanced.
C5_BoundarySnap ==
    [][ (pc = "object" /\ nupdates' = nupdates + 1) =>
          LET o == objs[idx]
              n == objs'[idx]
          IN  /\ SnapOK(o.x + o.vx * SPEED_MULTIPLIER, n.x, WIDTH)
              /\ SnapOK(o.y + o.vy * SPEED_MULTIPLIER, n.y, HEIGHT) ]_vars

\* The last update advanced x past the right edge and y past the top edge:
\* both were snapped, each to its own opposite edge.
C5_Witness ==
    \E o \in Objects :
        /\ Len(o.trail) > 0
        /\ o.trail[Len(o.trail)][1] > Px(WIDTH) /\ o.x = 0
        /\ o.trail[Len(o.trail)][2] < 0 /\ o.y = Px(HEIGHT)

\* C6: in every reachable state of the controller, speed_multiplier lies in
\* [0.5, 3.0], view_mode is PLAN or GROUND and direction is EAST or WEST.
C6_StateRanges ==
    /\ 2 * SPEED_MULTIPLIER >= SMUnit
    /\ SPEED_MULTIPLIER <= 3 * SMUnit
    /\ VIEW_MODE \in {"PLAN", "GROUND"}
    /\ DIRECTION \in {"EAST", "WEST"}

\* The slider was dragged to its maximum and both buttons were clicked.
C6_Witness ==
    /\ SPEED_MULTIPLIER = 3 * SMUnit
    /\ VIEW_MODE = "GROUND"
    /\ DIRECTION = "WEST"

\* A step of the for loop that handles an event of the given type.
Handles(type) ==
    /\ AtEvent
    /\ pending' = pending - 1
    /\ event'.type = type

\* clamp(r, 0, 1) for r in units of 1/SLIDER_W.
C7_Clamp(r) == IF r < 0 THEN 0 ELSE IF r > SLIDER_W THEN SLIDER_W ELSE r

\* C7: a pointer-move at pointer_x while a slider drag is held sets
\* speed_multiplier = 0.5 + clamp((pointer_x - slider_left)/slider_width,
\* 0, 1) * 2.5: 0.5 at slider_left, 3.0 at slider_left + slider_width, and
\* 0.5 or 3.0 left or right of the track, at any vertical position.
C7_SliderValue ==
    [][ (Handles("MOUSEMOTION") /\ dragging_slider) =>
          LET mx == event'.pos[1]
              sm == SPEED_MULTIPLIER'
          IN  /\ 2 * SLIDER_W * sm =
                     SMUnit * (SLIDER_W + 5 * C7_Clamp(mx - SLIDER_X))
              /\ mx <= SLIDER_X => 2 * sm = SMUnit
              /\ mx >= SLIDER_X + SLIDER_W => sm = 3 * SMUnit ]_vars

\* A drag is held and the last event moved the pointer right of the track
\* and above the slider's band: the multiplier is 3.0.
C7_Witness ==
    /\ pc = "events"
    /\ dragging_slider
    /\ event.type = "MOUSEMOTION"
    /\ event.pos[1] > SLIDER_X + SLIDER_W
    /\ event.pos[2] < SLIDER_Y - 10
    /\ SPEED_MULTIPLIER = 3 * SMUnit

InButton(r, e) == CollidePoint(r, e.pos[1], e.pos[2])

Flipped(old, new, a, b) == (old = a /\ new = b) \/ (old = b /\ new = a)

\* C8: a pointer-down inside the view button flips view_mode and leaves
\* direction and speed_multiplier unchanged; a pointer-down inside the
\* direction button flips direction and leaves view_mode and
\* speed_multiplier unchanged.
C8_Toggles ==
    [][ Handles("MOUSEBUTTONDOWN") =>
          /\ InButton(view_btn, event') =>
                /\ Flipped(VIEW_MODE, VIEW_MODE', "PLAN", "GROUND")
                /\ UNCHANGED <<DIRECTION, SPEED_MULTIPLIER>>
          /\ InButton(dir_btn, event') =>
                /\ Flipped(DIRECTION, DIRECTION', "EAST", "WEST")
                /\ UNCHANGED <<VIEW_MODE, SPEED_MULTIPLIER>> ]_vars

\* The combination GROUND/WEST, reached by a click on the direction button.
C8_Witness ==
    /\ pc = "events"
    /\ event.type = "MOUSEBUTTONDOWN"
    /\ InButton(dir_btn, event)
    /\ VIEW_MODE = "GROUND"
    /\ DIRECTION = "WEST"

\* C9: a pointer-move that arrives while no slider drag is active is a
\* no-op: speed_multiplier, view_mode, direction and the drag flag are
\* unchanged and no error is raised (the for loop goes on).
C9_MoveWithoutDrag ==
    [][ (Handles("MOUSEMOTION") /\ ~dragging_slider) =>
          /\ UNCHANGED <<SPEED_MULTIPLIER, VIEW_MODE, DIRECTION, dragging_slider>>
          /\ UNCHANGED <<running, objs>>
          /\ pc' = "events" ]_vars

\* The last event moved the pointer over the track with no drag held, and
\* the multiplier is not the slider's value there.
C9_Witness ==
    /\ pc = "events"
    /\ ~dragging_slider
    /\ event.type = "MOUSEMOTION"
    /\ SPEED_MULTIPLIER # SliderValue(event.pos[1])

\* Control has left `while running`: normally, or by the exception of a
\* draw call.
LoopLeft == pc \in {"exited", "crashed"}

LastN(seq, n) ==
    IF Len(seq) <= n THEN seq ELSE SubSeq(seq, Len(seq) - n + 1, Len(seq))

\* C11: the trail is a chronological FIFO of capacity 10: it holds
\* min(n, 10) entries after n updates, and each update turns it into the
\* last 10 entries of the old trail followed by the position the velocity
\* step computed (before any boundary snap), so the newest entry is last and
\* the oldest is the one evicted.
C11_TrailFifo ==
    /\ [](\A o \in Objects : Len(o.trail) = IF nupdates < 10 THEN nupdates ELSE 10)
    /\ [][ (pc = "object" /\ nupdates' = nupdates + 1) =>
             LET o == objs[idx]
                 n == objs'[idx]
                 p == <<o.x + o.vx * SPEED_MULTIPLIER, o.y + o.vy * SPEED_MULTIPLIER>>
             IN  /\ n.trail = LastN(o.trail \o <<p>>, 10)
                 /\ n.trail[Len(n.trail)] = p ]_vars

\* After 40 updates the trail is full and its newest entry is the position
\* below the bottom edge that the last update computed before the snap.
C11_Witness ==
    \E o \in Objects :
        /\ nupdates = 40
        /\ Len(o.trail) = 10
        /\ o.trail[10][2] > Px(HEIGHT)
        /\ o.trail[1][2] < o.trail[10][2]
        /\ o.y = 0

\* C12: projection and drawing do not mutate: a draw call, in either view
\* mode and either direction, leaves every SkyObject (x, y, z, trail,
\* velocity, id, type, movement) and view_mode, direction and
\* speed_multiplier unchanged.
C12_DrawDoesNotMutate ==
    [][ pc = "draw" =>
          /\ objs' = objs
          /\ UNCHANGED <<VIEW_MODE, DIRECTION, SPEED_MULTIPLIER>> ]_vars

\* Both objects have been drawn in PLAN mode, facing WEST, at positions
\* that are not whole pixels.
C12_Witness ==
    /\ pc = "ui"
    /\ canvas.mode = "PLAN"
    /\ canvas.text = 2
    /\ DIRECTION = "WEST"
    /\ \E o \in Objects : o.x % PosUnit # 0

\* The screen coordinates (sx, sy) a draw call hands to _draw_id, recovered
\* from the label position (sx + 8, sy - 8).
ScreenX(d) == d.label[1] - 8 * PosUnit
ScreenY(d) == d.label[2] + 8 * ZUnit

\* C13: GROUND-mode horizontal mirroring is self-inverse: for a fixed x the
\* screen x under WEST equals width minus the screen x under EAST, so
\* toggling direction twice returns the original screen x; the vertical
\* screen coordinate height - z*5 does not depend on direction.  Stated for
\* every object of the run, and for the GROUND draw call just issued
\* against the same call under the toggled direction.
C13_GroundMirror ==
    /\ \A o \in Objects :
          LET e == Draw(o, "GROUND", "EAST")
              w == Draw(o, "GROUND", "WEST")
          IN  /\ ScreenX(e) = o.x
              /\ ScreenX(w) = Px(WIDTH) - ScreenX(e)
              /\ Px(WIDTH) - ScreenX(w) = ScreenX(e)
              /\ \A d \in {"EAST", "WEST"} :
                    Draw(o, "GROUND", ToggleDirection(ToggleDirection(d)))
                        = Draw(o, "GROUND", d)
              /\ ScreenY(e) = HEIGHT * ZUnit - o.z * 5
              /\ ScreenY(w) = ScreenY(e)
              /\ w.circle[2] = e.circle[2]
    /\ canvas.mode = "GROUND" =>
          /\ idx >= 2
          /\ canvas = Draw(objs[idx - 1], "GROUND", DIRECTION)
          /\ ScreenX(Draw(objs[idx - 1], "GROUND", ToggleDirection(DIRECTION)))
                = Px(WIDTH) - ScreenX(canvas)

\* A GROUND draw facing WEST of an object whose x is not a whole pixel: the
\* mirrored screen x is exact, the truncated marker pixel is not the
\* mirror of the truncated x.
C13_Witness ==
    /\ canvas.mode = "GROUND"
    /\ DIRECTION = "WEST"
    /\ idx >= 2
    /\ objs[idx - 1].x % PosUnit # 0
    /\ ScreenX(canvas) = Px(WIDTH) - objs[idx - 1].x
    /\ canvas.circle[1] # WIDTH - IntTrunc(objs[idx - 1].x, PosUnit)

\* Every depth in [0, 100], in steps of 1/ZUnit.
Depths == 0..(Z_MAX * ZUnit)

\* The depths an object at depth z is compared with: every half unit of
\* depth, and the four depths next to z.
DepthGrid(z) ==
    {d \in Depths : d % 5 = 0} \cup ({z - 2, z - 1, z + 1, z + 2} \cap Depths)

\* The colour draw uses for object o were it at depth z.
ColorAt(o, z) == Draw([o EXCEPT !.z = z], "GROUND", "EAST").color

\* C14: colour attenuation is monotonic and clamped: for the same base
\* colour every displayed channel for depth z1 is >= the one for depth z2
\* whenever z1 <= z2 (both in [0, 100]), and every displayed channel lies in
\* [0, 255].  Stated for the depth z1 each object has against the depths z2
\* of DepthGrid(z1), and, for each object as constructed, for every two
\* neighbouring depths of the whole range.
C14_ColourMonotonic ==
    \A o \in Objects :
        LET here == ColorAt(o, o.z)
        IN  /\ o.z \in Depths
            /\ \A i \in 1..3 : here[i] \in 0..255
            /\ Draw(o, "PLAN", "EAST").color = here
            /\ \A z2 \in DepthGrid(o.z) :
                  LET there == ColorAt(o, z2)
                  IN  \A i \in 1..3 :
                        /\ there[i] \in 0..255
                        /\ o.z <= z2 => here[i] >= there[i]
                        /\ z2 <= o.z => there[i] >= here[i]
            /\ nupdates = 0 =>
                  \A z \in Depths \ {Z_MAX * ZUnit} : \A i \in 1..3 :
                      ColorAt(o, z)[i] >= ColorAt(o, z + 1)[i]

\* An updated Rare object (150, 0, 150) at a depth strictly inside the
\* range: its channels are brighter than at depth 100 and darker than at
\* depth 0, none of them clamped.
C14_Witness ==
    \E o \in Objects :
        /\ nupdates > 0
        /\ o.base_color = <<150, 0, 150>>
        /\ o.z > 0 /\ o.z < Z_MAX * ZUnit
        /\ ColorAt(o, 0) = <<230, 80, 230>>
        /\ ColorAt(o, Z_MAX * ZUnit) = <<150, 0, 150>>
        /\ \A i \in 1..3 : /\ ColorAt(o, o.z)[i] < ColorAt(o, 0)[i]
                           /\ ColorAt(o, o.z)[i] > ColorAt(o, Z_MAX * ZUnit)[i]

\* Steps of the object loop: an update call, and a draw call that returns.
UpdateStep == pc = "update" /\ pc' = "draw"
DrawStep == pc = "draw" /\ pc' \in {"update", "ui"}

\* Update calls made before the current frame began.
UpdatesBefore == (frame - 1) * Len(objs)

C16_DragOnly ==
    /\ [][ SPEED_MULTIPLIER' # SPEED_MULTIPLIER =>
             /\ Handles("MOUSEMOTION")
             /\ dragging_slider /\ dragging_slider'
             /\ SPEED_MULTIPLIER' = SliderValue(event'.pos[1]) ]_vars
    /\ [][ (~dragging_slider /\ dragging_slider') =>
             /\ Handles("MOUSEBUTTONDOWN")
             /\ InSliderBand(event'.pos[1], event'.pos[2])
             /\ ~InButton(view_btn, event')
             /\ ~InButton(dir_btn, event') ]_vars
    /\ [][ Handles("MOUSEBUTTONUP") => ~dragging_slider' ]_vars
    /\ [][ (Handles("MOUSEBUTTONDOWN") \/ Handles("MOUSEBUTTONUP")) =>
             SPEED_MULTIPLIER' = SPEED_MULTIPLIER ]_vars

\* A drag begun in the first frame moved the multiplier to the track's
\* right end in the second, and the pointer-up that followed ended the drag
\* and left the multiplier there.
C16_Witness ==
    /\ frame = 2
    /\ pc = "events"
    /\ pending = 0
    /\ ~dragging_slider
    /\ event = UpEvent
    /\ SPEED_MULTIPLIER = 3 * SMUnit

\* What the constructor fixes for an object: id, type (with its base
\* colour), movement behaviour, speed and velocity.
Identity(o) ==
    <<o.id, o.otype, o.base_color, o.movement, o.speed, o.vx, o.vy>>

\* C17: after construction no update, draw or input event changes an
\* object's id, type, movement or velocity, and no object is added to or
\* removed from the population: it stays exactly the spawned list.
C17_IdentityFixed ==
    /\ [][ /\ Len(objs') = Len(objs)
           /\ \A i \in 1..Len(objs) : Identity(objs'[i]) = Identity(objs[i])
         ]_vars
    /\ [](\E p \in RunPopulations :
             /\ Len(objs) = Len(p)
             /\ \A i \in 1..Len(p) : Identity(objs[i]) = Identity(p[i]))

\* Two frames of events, updates and draws are over; an object left the
\* canvas on the right in the first frame, and a drag changed the speed.
C17_Witness ==
    /\ frame = 2
    /\ pc = "while"
    /\ nupdates = 2 * Len(objs)
    /\ canvas.text = Len(objs)
    /\ \A o \in Objects : Len(o.trail) = 2
    /\ \E o \in Objects : o.trail[1][1] > Px(WIDTH)
    /\ SPEED_MULTIPLIER # SMUnit

\* C18: whenever a SkyObject is drawn in PLAN mode its trail holds at least
\* 2 points (what drawing a polyline requires), in every frame, the first
\* included.
C18_PlanTrailHasTwoPoints ==
    (pc = "draw" /\ VIEW_MODE = "PLAN") => Len(objs[idx].trail) >= 2

\* C19: after every update call 0 <= x <= width and 0 <= y <= height: the
\* boundary snap puts the position back in the canvas, although the trail
\* entry appended in the same update may lie outside it.
C19_PositionInCanvas ==
    \A o \in Objects :
        /\ 0 <= o.x /\ o.x <= Px(WIDTH)
        /\ 0 <= o.y /\ o.y <= Px(HEIGHT)

\* The update just made took the object past the left edge: the trail's
\* newest entry has x < 0 and the object is on the right edge.
C19_Witness ==
    \E o \in Objects :
        /\ nupdates > 0
        /\ o.trail[Len(o.trail)][1] < 0
        /\ o.x = Px(WIDTH)
        /\ o.y > 0 /\ o.y < Px(HEIGHT)

====
